---------------------------- MODULE Spec2Model ----------------------------
(***************************************************************************)
(* Model of the system-design-primer document tools:                       *)
(*   src/generate_pdf.py         the Combined-Document Generator           *)
(*   src/list_markdown_files.py  the Markdown File Lister                  *)
(*                                                                         *)
(* Python strings are TLA+ strings; Len, SubSeq, Tail and \o act on them   *)
(* character by character, so substring tests, splits and replacements    *)
(* are computed as the code computes them.                                 *)
(***************************************************************************)
EXTENDS Integers, Sequences, FiniteSets, TLC

(***************************************************************************)
(* Python string primitives                                                *)
(***************************************************************************)

\* s[a:] for a 0-based offset a
From(s, a) == SubSeq(s, a + 1, Len(s))

\* str.startswith
StartsWith(s, p) == Len(p) <= Len(s) /\ SubSeq(s, 1, Len(p)) = p

\* str.endswith
EndsWith(s, p) == Len(p) <= Len(s) /\ SubSeq(s, Len(s) - Len(p) + 1, Len(s)) = p

\* the substring test  p in s
Contains(s, p) == \E a \in 0..(Len(s) - Len(p)) : SubSeq(s, a + 1, a + Len(p)) = p

\* str.find(p): the least 0-based offset at which p occurs in s, or -1
Find(s, p) ==
    IF Contains(s, p)
    THEN CHOOSE a \in 0..(Len(s) - Len(p)) :
            /\ SubSeq(s, a + 1, a + Len(p)) = p
            /\ \A b \in 0..(a - 1) : SubSeq(s, b + 1, b + Len(p)) # p
    ELSE -1

\* str.rfind(p): the greatest such offset, or -1
RFind(s, p) ==
    IF Contains(s, p)
    THEN CHOOSE a \in 0..(Len(s) - Len(p)) :
            /\ SubSeq(s, a + 1, a + Len(p)) = p
            /\ \A b \in (a + 1)..(Len(s) - Len(p)) : SubSeq(s, b + 1, b + Len(p)) # p
    ELSE -1

\* str.replace(old, new) for a non-empty old: left to right, non-overlapping
RECURSIVE Replace(_, _, _)
Replace(s, old, new) ==
    IF s = "" THEN s
    ELSE LET a == Find(s, old)
         IN  IF a < 0 THEN s
             ELSE SubSeq(s, 1, a) \o new \o Replace(From(s, a + Len(old)), old, new)

\* str.split(sep) for a one-character sep
RECURSIVE Split(_, _)
Split(s, sep) ==
    LET a == Find(s, sep)
    IN  IF a < 0 THEN <<s>>
        ELSE <<SubSeq(s, 1, a)>> \o Split(From(s, a + 1), sep)

UpperAlphabet == "ABCDEFGHIJKLMNOPQRSTUVWXYZ"
LowerAlphabet == "abcdefghijklmnopqrstuvwxyz"

IsUpperChar(c) == Contains(UpperAlphabet, c)
IsLowerChar(c) == Contains(LowerAlphabet, c)
IsCasedChar(c) == IsUpperChar(c) \/ IsLowerChar(c)

LowerChar(c) ==
    IF c # "" /\ IsUpperChar(c)
    THEN LET a == Find(UpperAlphabet, c) IN SubSeq(LowerAlphabet, a + 1, a + 1)
    ELSE c

UpperChar(c) ==
    IF c # "" /\ IsLowerChar(c)
    THEN LET a == Find(LowerAlphabet, c) IN SubSeq(UpperAlphabet, a + 1, a + 1)
    ELSE c

\* str.lower: every character lower-cased (the text is halved to keep the
\* evaluation shallow)
RECURSIVE Lower(_)
Lower(s) ==
    IF Len(s) <= 1 THEN LowerChar(s)
    ELSE LET h == Len(s) \div 2
         IN  Lower(SubSeq(s, 1, h)) \o Lower(SubSeq(s, h + 1, Len(s)))

\* character a of s as str.title leaves it: a cased character is upper-cased
\* when the character before it is not cased, and lower-cased otherwise
TitleChar(s, a) ==
    LET c == SubSeq(s, a, a)
    IN  IF a > 1 /\ IsCasedChar(SubSeq(s, a - 1, a - 1)) THEN LowerChar(c) ELSE UpperChar(c)

\* str.title applied to the characters lo..hi of s
RECURSIVE TitleRange(_, _, _)
TitleRange(s, lo, hi) ==
    IF lo > hi THEN ""
    ELSE IF lo = hi THEN TitleChar(s, lo)
    ELSE LET mid == (lo + hi) \div 2
         IN  TitleRange(s, lo, mid) \o TitleRange(s, mid + 1, hi)

\* str.title
Title(s) == TitleRange(s, 1, Len(s))

\* os.path.basename (posixpath)
Basename(p) == From(p, RFind(p, "/") + 1)

\* str.rstrip("/")
RECURSIVE RStripSlash(_)
RStripSlash(s) ==
    IF s # "" /\ EndsWith(s, "/") THEN RStripSlash(SubSeq(s, 1, Len(s) - 1)) ELSE s

\* os.path.dirname (posixpath): the head up to the last slash, its trailing
\* slashes stripped unless it consists of slashes only
Dirname(p) ==
    LET head == SubSeq(p, 1, RFind(p, "/") + 1)
    IN  IF head # "" /\ RStripSlash(head) # "" THEN RStripSlash(head) ELSE head

\* os.path.join(root, file) for a relative file name
PathJoin(root, file) == IF EndsWith(root, "/") THEN root \o file ELSE root \o "/" \o file

\* os.path.relpath(path, start) for a normalised path below start
RelPath(path, start) == From(path, Len(start) + 1)

\* pathlib's  repo_path / file_path
FullPath(repo, file_path) == PathJoin(repo, file_path)

\* printable ASCII (the grave accent left out) in code-point order: Python
\* compares strings by code point
AsciiOrder ==
    " !\"#$%&'()*+,-./0123456789:;<=>?@ABCDEFGHIJKLMNOPQRSTUVWXYZ[\\]^_abcdefghijklmnopqrstuvwxyz{|}~"

\* a < b for Python strings
StrLess(a, b) ==
    LET n == IF Len(a) < Len(b) THEN Len(a) ELSE Len(b)
        differ == { c \in 1..n : SubSeq(a, c, c) # SubSeq(b, c, c) }
    IN  IF differ = {} THEN Len(a) < Len(b)
        ELSE LET c == CHOOSE d \in differ : \A e \in differ : d <= e
             IN  Find(AsciiOrder, SubSeq(a, c, c)) < Find(AsciiOrder, SubSeq(b, c, c))

\* sorted(list) for a list of strings
RECURSIVE Sorted(_)
Sorted(seq) ==
    IF seq = <<>> THEN <<>>
    ELSE LET m == CHOOSE a \in 1..Len(seq) :
                    \A b \in 1..Len(seq) :
                        /\ ~StrLess(seq[b], seq[a])
                        /\ (seq[b] = seq[a] => a <= b)
         IN  <<seq[m]>> \o Sorted(SubSeq(seq, 1, m - 1) \o SubSeq(seq, m + 1, Len(seq)))

\* the elements of a sequence
Range(seq) == {seq[a] : a \in 1..Len(seq)}

(***************************************************************************)
(* src/generate_pdf.py: MarkdownPDFGenerator                               *)
(***************************************************************************)

\* self.file_order, the Explicit Ordering List
file_order ==
    << "README.md",
       "CONTRIBUTING.md",
       "solutions/system_design/pastebin/README.md",
       "solutions/system_design/twitter/README.md",
       "solutions/system_design/web_crawler/README.md",
       "solutions/system_design/mint/README.md",
       "solutions/system_design/social_graph/README.md",
       "solutions/system_design/query_cache/README.md",
       "solutions/system_design/sales_rank/README.md",
       "solutions/system_design/scaling_aws/README.md",
       "solutions/object_oriented_design/hash_table/hash_map.ipynb",
       "solutions/object_oriented_design/lru_cache/lru_cache.ipynb",
       "solutions/object_oriented_design/call_center/call_center.ipynb",
       "solutions/object_oriented_design/deck_of_cards/deck_of_cards.ipynb",
       "solutions/object_oriented_design/parking_lot/parking_lot.ipynb",
       "solutions/object_oriented_design/online_chat/online_chat.ipynb" >>

non_english_patterns ==
    << "README-ja.md", "README-zh-Hans.md", "README-zh-TW.md", "-zh-Hans.md", "-ja.md" >>

excluded_files ==
    << "combined-system-design-primer.md", "combined-system-design-primer.html",
       "TRANSLATIONS.md" >>

\* a test against the language patterns only
is_translation_only(file_path) ==
    \E a \in 1..Len(non_english_patterns) : Contains(file_path, non_english_patterns[a])

\* is_non_english_file: a substring test against both lists
is_non_english_file(file_path) ==
    \/ \E a \in 1..Len(non_english_patterns) : Contains(file_path, non_english_patterns[a])
    \/ \E a \in 1..Len(excluded_files) : Contains(file_path, excluded_files[a])

\* the test on the file name in find_all_markdown_files
IsContentFile(file) == EndsWith(file, ".md") \/ EndsWith(file, ".ipynb")

\* a walk that skips no directory
SkipRootNever(root) == FALSE

\* the test on the walked directory in find_all_markdown_files
SkipRoot(root) == Contains(root, ".github")

\* the root os.walk(top) yields for the directory dir below top ("" is top)
WalkRoot(top, dir) == IF dir = "" THEN top ELSE PathJoin(top, dir)

\* rel_path of a walked file
WalkRelPath(e, repo) == RelPath(PathJoin(WalkRoot(repo, e.dir), e.file), repo)

\* the three tests a walked file passes to be appended
GeneratorKeeps(e, repo) ==
    /\ ~SkipRoot(WalkRoot(repo, e.dir))
    /\ IsContentFile(e.file)
    /\ ~is_non_english_file(WalkRelPath(e, repo))

\* find_all_markdown_files over the pairs (directory, file) that
\* os.walk(repo) yields, in the order it yields them
find_all_markdown_files(entries, repo) ==
    LET kept == SelectSeq(entries, LAMBDA e : GeneratorKeeps(e, repo))
    IN  [a \in 1..Len(kept) |-> WalkRelPath(kept[a], repo)]

(***************************************************************************)
(* The replacement table of clean_unicode_characters, in dict order.  The  *)
(* module is ASCII, so each non-ASCII character of the source is written   *)
(* as one ASCII character that occurs in no other text of the model:       *)
(*   U+201A 0   U+00E0 1   U+00F4 2   U+00C4 3   U+00A2 4   U+00B6 5       *)
(*   U+00EC 6   U+00EE 7   U+2020 8   U+00B0 9   U+00AC ~   U+00DF ^       *)
(*   U+2202 &   U+00A9 @   U+00C6 $   U+00D1 %                             *)
(* Lines 166-167 of the source open and close a triple-quoted string, so   *)
(* the fifth key is the text between them; the key of lines 168 and 169 is *)
(* the double quote, mapped to itself.                                     *)
(***************************************************************************)
replacements ==
    << <<"012", "034">>,
       <<"035", "...">>,
       <<"036", "--">>,
       <<"037", "---">>,
       <<": \"'\",   # Replace left single quote\n            ", "'">>,
       <<"\"", "\"">>,
       <<"038", "+">>,
       <<"039", "++">>,
       <<"~^", "Section">>,
       <<"~&", "Para">>,
       <<"~@", "(c)">>,
       <<"~$", "(R)">>,
       <<"0%4", "(TM)">> >>

\* the loop of clean_unicode_characters from table entry a on
RECURSIVE CleanFrom(_, _)
CleanFrom(content, a) ==
    IF a > Len(replacements) \/ content = "" THEN content
    ELSE CleanFrom(Replace(content, replacements[a][1], replacements[a][2]), a + 1)

clean_unicode_characters(content) == CleanFrom(content, 1)

github_base == "https://github.com/donnemartin/system-design-primer/blob/master"
raw_base == "https://raw.githubusercontent.com/donnemartin/system-design-primer/master"

\* f"[{link_text}](#{anchor})"
AnchorLink(link_text, anchor) == "[" \o link_text \o "](#" \o anchor \o ")"

\* f"[{link_text}]({base}/{link_url})"
AbsoluteLink(link_text, base, link_url) ==
    "[" \o link_text \o "](" \o base \o "/" \o link_url \o ")"

\* a rewriting that sends every solution link to GitHub
SolutionLinkToGithub(link_text, link_url) == AbsoluteLink(link_text, github_base, link_url)

\* the solutions/ branch of replace_md_link, entered with at least 4 parts
SolutionLink(link_text, link_url) ==
    LET parts == Split(link_url, "/")
        section_type == Replace(parts[2], "_", "-")
        problem_name == Replace(parts[3], "_", "-")
        section_id == Lower(section_type \o "-" \o problem_name)
    IN  IF section_type = "system-design" /\ EndsWith(link_url, "README.md")
        THEN AnchorLink(link_text, section_id)
        ELSE IF section_type = "object-oriented-design" /\ EndsWith(link_url, ".ipynb")
        THEN AnchorLink(link_text, section_id)
        ELSE AbsoluteLink(link_text, github_base, link_url)

\* a rewriting that sends every .md link to the main README
MdLinkToMain(link_text, link_url) == AnchorLink(link_text, "main-readme")

\* the .md branch of replace_md_link
MdLink(link_text, link_url) ==
    LET filename == Replace(Replace(Basename(link_url), ".md", ""), "README", "")
        dir_name == Dirname(link_url)
    IN  IF filename # ""
        THEN AnchorLink(link_text, Lower(Replace(Replace(filename, "_", "-"), " ", "-")))
        ELSE IF dir_name # ""
        THEN AnchorLink(link_text, Replace(Basename(dir_name), "_", "-"))
        ELSE AnchorLink(link_text, "main-readme")

\* replace_md_link: group 1, group 2 and group 0 of the match
replace_md_link(link_text, link_url, whole) ==
    IF StartsWith(link_url, "http://") \/ StartsWith(link_url, "https://") THEN whole
    ELSE IF StartsWith(link_url, "solutions/") /\ Len(Split(link_url, "/")) >= 4
    THEN SolutionLink(link_text, link_url)
    ELSE IF EndsWith(link_url, ".md") THEN MdLink(link_text, link_url)
    ELSE IF StartsWith(link_url, "#") THEN whole
    ELSE IF StartsWith(link_url, "images/") \/ StartsWith(link_url, "resources/")
    THEN AbsoluteLink(link_text, raw_base, link_url)
    ELSE whole

\* link_pattern  \[([^\]]+)\]\(([^)]+)\)  matched at the start of s: the
\* text runs to the first "]", the url from the "(" after it to the first ")"
LinkMatch(s) ==
    LET close == Find(s, "]")
        rest == From(s, close + 2)
        paren == Find(rest, ")")
        ok == /\ StartsWith(s, "[")
              /\ close >= 2
              /\ SubSeq(s, close + 2, close + 2) = "("
              /\ paren >= 1
    IN  IF ok
        THEN [ok |-> TRUE, text |-> SubSeq(s, 2, close), url |-> SubSeq(rest, 1, paren),
              len |-> close + 2 + paren + 1]
        ELSE [ok |-> FALSE, text |-> "", url |-> "", len |-> 0]

\* re.sub(link_pattern, replace_md_link, content): leftmost matches, left to
\* right, non-overlapping
RECURSIVE process_internal_links(_)
process_internal_links(content) ==
    LET a == Find(content, "[")
        m == LinkMatch(From(content, a))
    IN  IF content = "" \/ a < 0 THEN content
        ELSE IF m.ok
        THEN SubSeq(content, 1, a)
                \o replace_md_link(m.text, m.url, SubSeq(content, a + 1, a + m.len))
                \o process_internal_links(From(content, a + m.len))
        ELSE SubSeq(content, 1, a + 1) \o process_internal_links(From(content, a + 1))

\* the header add_section_header builds ("" for the main README)
section_header(file_path) ==
    IF file_path = "README.md" THEN ""
    ELSE IF StartsWith(file_path, "solutions/")
    THEN LET parts == Split(file_path, "/")
         IN  IF Len(parts) >= 4
             THEN LET section_type == Title(Replace(parts[2], "_", " "))
                      problem_name == Title(Replace(parts[3], "_", " "))
                      section_id == Lower(Replace(parts[2], "_", "-") \o "-"
                                            \o Replace(parts[3], "_", "-"))
                  IN  "\n\n# " \o section_type \o ": " \o problem_name
                        \o " {#" \o section_id \o "}\n\n"
             ELSE "\n\n# " \o Dirname(file_path) \o "\n\n"
    ELSE LET filename == Replace(Basename(file_path), ".md", "")
         IN  IF StartsWith(filename, "README-")
             THEN "\n\n# System Design Primer (" \o Replace(filename, "README-", "") \o ")\n\n"
             ELSE "\n\n# " \o filename \o "\n\n"

add_section_header(file_path, content) == section_header(file_path) \o content

\* a failed conversion that contributes no text
NotebookPlaceholderEmpty(notebook_path) == ""

\* what convert_notebook_to_markdown returns when pandoc exits non-zero or the
\* call raises
NotebookPlaceholder(notebook_path) ==
    "# " \o notebook_path \o "\n\n*Notebook conversion failed*\n\n"

\* convert_notebook_to_markdown: outcome is that of subprocess.run ("ok": exit
\* status 0, "nonzero": another exit status, "raise": an exception), out is
\* pandoc's stdout
convert_notebook_to_markdown(notebook_path, outcome, out) ==
    IF outcome = "ok" THEN out ELSE NotebookPlaceholder(notebook_path)

\* the three per-file steps of combine_markdown_files
Transform(file_path, content) ==
    add_section_header(file_path,
        process_internal_links(clean_unicode_characters(content)))

(***************************************************************************)
(* src/list_markdown_files.py                                              *)
(***************************************************************************)

generated_files ==
    << "combined-system-design-primer.md", "combined-system-design-primer.html" >>

lister_is_non_english_file(file_path) ==
    \/ \E a \in 1..Len(non_english_patterns) : Contains(file_path, non_english_patterns[a])
    \/ \E a \in 1..Len(generated_files) : Contains(file_path, generated_files[a])

\* the three tests a walked file passes to be appended by the Lister
ListerKeeps(e, repo) ==
    /\ ~Contains(WalkRoot(repo, e.dir), ".github")
    /\ EndsWith(e.file, ".md")
    /\ ~lister_is_non_english_file(WalkRelPath(e, repo))

\* the loops of the Lister's find_all_markdown_files
ListerWalk(entries, repo) ==
    LET kept == SelectSeq(entries, LAMBDA e : ListerKeeps(e, repo))
    IN  [a \in 1..Len(kept) |-> WalkRelPath(kept[a], repo)]

\* the Lister's find_all_markdown_files: the walk, then sorted()
lister_find_all_markdown_files(entries, repo) == Sorted(ListerWalk(entries, repo))

(***************************************************************************)
(* State                                                                   *)
(***************************************************************************)
VARIABLES
    pc,                 \* position of the run
    repo_path,          \* main: Path(args.repo_path).resolve()
    walk,               \* the (directory, file) pairs os.walk yields, in its order
    disk,               \* relative paths for which full_path.exists() holds
    all_files,          \* combine_markdown_files: all_files (the Candidate File Set)
    idx,                \* index of the loop in progress
    processed_files,    \* combine_markdown_files: processed_files
    content,            \* combine_markdown_files: content, as last appended
    combined_markdown,  \* self.combined_markdown
    stdout,             \* the lines printed about files and stages, in order
    md_file,            \* combined-system-design-primer.md: <<>> or <<its text>>
    html_file,          \* the .html beside it: "absent", "raw" or "styled"
    pdf_file,           \* the file at pdf_path: what it holds and who wrote it
    backend,            \* generate_pdf_from_html: the backend to run next
    attempts,           \* the commands of the PDF backends run so far, in order
    returncode,         \* outcome of the last subprocess.run of a PDF backend
    accepted,           \* command of the backend on which the stage returned True
    html_result,        \* what generate_html returned
    pdf_result,         \* what generate_pdf_from_html returned
    exit_status,        \* exit status of the process (Running until it ends)
    listed,             \* the Lister's find_all_markdown_files result
    link_text,          \* text of the link given to process_internal_links
    link_url,           \* its url
    link_out,           \* what process_internal_links returned
    clean_in,           \* text given to clean_unicode_characters
    clean_once,         \* what clean_unicode_characters returned for it
    clean_twice,        \* what it returned for that result
    sizes,              \* the Lister's report: st_size of the files that exist
    report_lines,       \* the numbered lines it printed
    printed_count,      \* the n of "Total: n files"
    printed_kb,         \* the n of "Total size: n KB"
    section_files,      \* files given to add_section_header, in order
    section_headers,    \* what it returned for them so far
    earlier             \* what each completed run of main found and combined

vars ==
    << pc, repo_path, walk, disk, all_files, idx, processed_files, content,
       combined_markdown, stdout, md_file, html_file, pdf_file, backend, attempts,
       returncode, accepted, html_result, pdf_result, exit_status, listed, link_text,
       link_url, link_out, clean_in, clean_once, clean_twice, sizes, report_lines,
       printed_count, printed_kb, section_files, section_headers, earlier >>

renderVars ==
    << md_file, html_file, pdf_file, backend, attempts, returncode, accepted,
       html_result, pdf_result, exit_status >>

combineVars == << all_files, idx, processed_files, content, combined_markdown >>

inputVars == << repo_path, walk, disk >>

linkVars == << link_text, link_url, link_out >>

cleanVars == << clean_in, clean_once, clean_twice >>

reportVars == << sizes, report_lines, printed_count, printed_kb >>

anchorVars == << section_files, section_headers >>

\* the state of the functions applied on their own, of the Lister's report
\* and of the runs before this one
sideVars == << linkVars, cleanVars, reportVars, anchorVars, earlier >>

(***************************************************************************)
(* Bounds and input pools of the Generator run                             *)
(***************************************************************************)

\* how many files of the pools below are missing from the tree or vanish
\* between the walk and the exists() test
MaxAbsent == 1
\* how many files outside the Explicit Ordering List the tree holds
MaxExtras == 2
\* how many notebook conversions fail in one run
MaxConvFail == 1

\* the exit status of a process that has not exited
Running == -1
\* the value of a result no stage has returned yet
Unset == "unset"
\* the producer of a file no backend of this run wrote
Nobody == ""

ListedFiles == Range(file_order)

\* listed files the tree may lack
MissingPool ==
    { "CONTRIBUTING.md",
      "solutions/object_oriented_design/lru_cache/lru_cache.ipynb" }

\* files that may be deleted after the walk saw them
VanishPool == { "solutions/system_design/twitter/README.md" }

\* files outside the list the tree may hold
ExtraPool ==
    { "CHANGELOG.md", "resources/study_guide.ipynb", "TRANSLATIONS.md" }

\* notebooks whose conversion may fail
FlakyNotebooks ==
    { "solutions/object_oriented_design/hash_table/hash_map.ipynb",
      "resources/study_guide.ipynb" }

\* the files the tree can hold directly in the top directory, ascending
TopAscending == << "CHANGELOG.md", "CONTRIBUTING.md", "README.md", "TRANSLATIONS.md" >>

\* the files it can hold in the directories below, ascending
BelowAscending ==
    << "resources/study_guide.ipynb",
       "solutions/object_oriented_design/call_center/call_center.ipynb",
       "solutions/object_oriented_design/deck_of_cards/deck_of_cards.ipynb",
       "solutions/object_oriented_design/hash_table/hash_map.ipynb",
       "solutions/object_oriented_design/lru_cache/lru_cache.ipynb",
       "solutions/object_oriented_design/online_chat/online_chat.ipynb",
       "solutions/object_oriented_design/parking_lot/parking_lot.ipynb",
       "solutions/system_design/mint/README.md",
       "solutions/system_design/pastebin/README.md",
       "solutions/system_design/query_cache/README.md",
       "solutions/system_design/sales_rank/README.md",
       "solutions/system_design/scaling_aws/README.md",
       "solutions/system_design/social_graph/README.md",
       "solutions/system_design/twitter/README.md",
       "solutions/system_design/web_crawler/README.md" >>

Reverse(seq) == [a \in 1..Len(seq) |-> seq[Len(seq) + 1 - a]]

\* the elements of seq that are in S, in the order of seq
Keep(seq, S) == SelectSeq(seq, LAMBDA x : x \in S)

WalkEntry(rel) == [dir |-> Dirname(rel), file |-> Basename(rel)]

\* a top-down walk of the tree: the files of the top directory, then those
\* of the directories below it, each listing ascending or descending
WalkOf(tree, descending) ==
    LET ord(seq) == IF descending THEN Reverse(Keep(seq, tree)) ELSE Keep(seq, tree)
        paths == ord(TopAscending) \o ord(BelowAscending)
    IN  [a \in 1..Len(paths) |-> WalkEntry(paths[a])]

\* text of a file of the tree, as open(...).read() returns it
FileContent(file_path) ==
    IF file_path = "README.md"
    THEN "See [Mint](solutions/system_design/mint/README.md) 036 [site](https://x.io).\n"
    ELSE "Text of " \o file_path \o ".\n"

\* the files main writes into the repository under the default names
combined_md == "combined-system-design-primer.md"
combined_html == "combined-system-design-primer.html"
output_pdf == "system-design-primer.pdf"

\* what pandoc prints for a notebook it converts
PandocMarkdown(notebook_path) == "Cells of " \o Basename(notebook_path) \o ".\n"

\* the state before a run for which nothing has been computed yet
Idle ==
    /\ all_files = <<>>
    /\ idx = 0
    /\ processed_files = {}
    /\ content = ""
    /\ combined_markdown = ""
    /\ stdout = <<>>
    /\ md_file = <<>>
    /\ html_file = "absent"
    /\ backend = 0
    /\ attempts = <<>>
    /\ returncode = Unset
    /\ accepted = Nobody
    /\ html_result = Unset
    /\ pdf_result = Unset
    /\ exit_status = Running
    /\ listed = <<>>
    /\ link_text = ""
    /\ link_url = ""
    /\ link_out = ""
    /\ clean_in = ""
    /\ clean_once = ""
    /\ clean_twice = ""
    /\ sizes = <<>>
    /\ report_lines = <<>>
    /\ printed_count = 0
    /\ printed_kb = 0
    /\ section_files = <<>>
    /\ section_headers = <<>>
    /\ earlier = <<>>

InitRun ==
    /\ pc = "start"
    /\ repo_path = "/srv/primer"
    /\ \E absent \in SUBSET MissingPool, extras \in SUBSET ExtraPool,
          descending \in BOOLEAN :
          LET tree == (ListedFiles \ absent) \cup extras
          IN  \E gone \in SUBSET (VanishPool \cap tree) :
                /\ Cardinality(absent) + Cardinality(gone) <= MaxAbsent
                /\ Cardinality(extras) <= MaxExtras
                /\ walk = WalkOf(tree, descending)
                /\ disk = tree \ gone
    /\ pdf_file \in { [holds |-> "nothing", by |-> Nobody],
                      [holds |-> "pdf", by |-> Nobody] }
    /\ Idle

(***************************************************************************)
(* combine_markdown_files                                                  *)
(***************************************************************************)

\* all_files = self.find_all_markdown_files()
Discover ==
    /\ pc = "start"
    /\ all_files' = find_all_markdown_files(walk, repo_path)
    /\ idx' = 1
    /\ pc' = "ordered"
    /\ UNCHANGED << processed_files, content, combined_markdown, stdout >>
    /\ UNCHANGED << inputVars, renderVars, listed, sideVars >>

ConvFailures == Cardinality({a \in 1..Len(stdout) : stdout[a][1] = "Warning"})

\* the outcomes the loading of file_path can have
LoadOutcomes(file_path) ==
    IF EndsWith(file_path, ".ipynb")
    THEN IF file_path \in FlakyNotebooks /\ ConvFailures < MaxConvFail
         THEN {"ok", "nonzero", "raise"}
         ELSE {"ok"}
    ELSE {"read"}

\* "Handle different file types": the content loaded for file_path
Load(file_path, outcome) ==
    IF EndsWith(file_path, ".ipynb")
    THEN convert_notebook_to_markdown(FullPath(repo_path, file_path), outcome,
                                      PandocMarkdown(FullPath(repo_path, file_path)))
    ELSE IF file_path = combined_md /\ md_file # <<>>
    THEN md_file[1]
    ELSE FileContent(file_path)

\* the lines one processed file prints
Printed(label, file_path, outcome) ==
    << <<label, file_path>> >>
        \o (IF outcome \in {"nonzero", "raise"}
            THEN << <<"Warning", FullPath(repo_path, file_path)>> >>
            ELSE <<>>)

\* a first loop without the exists() test
OrderedSelectedUnchecked(file_path) == file_path \in Range(all_files)

\* the two tests of the first loop
OrderedSelected(file_path) == file_path \in Range(all_files) /\ file_path \in disk

\* a second loop that forgets what the first one processed
RemainingSelectedAgain(file_path) == file_path \in disk

\* the two tests of the second loop
RemainingSelected(file_path) == file_path \notin processed_files /\ file_path \in disk

\* one iteration of  for file_path in self.file_order
ProcessOrdered ==
    /\ pc = "ordered"
    /\ LET file_path == file_order[idx]
       IN  IF OrderedSelected(file_path)
           THEN \E outcome \in LoadOutcomes(file_path) :
                  /\ content' = Transform(file_path, Load(file_path, outcome))
                  /\ combined_markdown' = combined_markdown \o content'
                  /\ processed_files' = processed_files \cup {file_path}
                  /\ stdout' = stdout \o Printed("Processing", file_path, outcome)
           ELSE UNCHANGED << content, combined_markdown, processed_files, stdout >>
    /\ IF idx < Len(file_order)
       THEN idx' = idx + 1 /\ pc' = pc
       ELSE idx' = 1 /\ pc' = "remaining"
    /\ UNCHANGED << all_files, inputVars, renderVars, listed, sideVars >>

\* one iteration of  for file_path in all_files
ProcessRemaining ==
    /\ pc = "remaining"
    /\ idx <= Len(all_files)
    /\ LET file_path == all_files[idx]
       IN  IF RemainingSelected(file_path)
           THEN \E outcome \in LoadOutcomes(file_path) :
                  /\ content' = Transform(file_path, Load(file_path, outcome))
                  /\ combined_markdown' = combined_markdown \o content'
                  /\ stdout' = stdout
                        \o Printed("Processing additional English file", file_path, outcome)
           ELSE UNCHANGED << content, combined_markdown, stdout >>
    /\ idx' = idx + 1
    /\ UNCHANGED << pc, processed_files, all_files, inputVars, renderVars, listed,
                    sideVars >>

(***************************************************************************)
(* save_combined_markdown, generate_pdf and main                           *)
(***************************************************************************)

\* generator.save_combined_markdown(combined_md), once the second loop ended
Save ==
    /\ pc = "remaining"
    /\ idx > Len(all_files)
    /\ md_file' = <<combined_markdown>>
    /\ pc' = "html"
    /\ UNCHANGED << html_file, pdf_file, backend, attempts, returncode, accepted,
                    html_result, pdf_result, exit_status >>
    /\ UNCHANGED << combineVars, stdout, inputVars, listed, sideVars >>

\* a generate_pdf that ignores what generate_html returned
AfterHtmlAlwaysPdf(ok) == "pdf"

\* generate_pdf: the PDF stage follows an HTML stage that returned True;
\* otherwise generate_pdf returns False to main
AfterHtml(ok) == IF ok = "True" THEN "pdf" ELSE "report"

\* generate_html: pandoc exits 0 ("ok"; post_process_html then rewrites the
\* file, or fails and only warns: "ok_post_failed"), exits non-zero, or the
\* call raises
GenerateHtml ==
    /\ pc = "html"
    /\ \E outcome \in {"ok", "ok_post_failed", "nonzero", "raise"} :
          /\ html_file' = CASE outcome = "ok" -> "styled"
                            [] outcome = "ok_post_failed" -> "raw"
                            [] OTHER -> html_file
          /\ html_result' = IF outcome \in {"ok", "ok_post_failed"} THEN "True" ELSE "False"
          /\ pc' = AfterHtml(html_result')
    /\ stdout' = Append(stdout, <<"Generating HTML...", "pandoc">>)
    /\ UNCHANGED << md_file, pdf_file, backend, attempts, returncode, accepted,
                    pdf_result, exit_status >>
    /\ UNCHANGED << combineVars, inputVars, listed, sideVars >>

chrome_paths ==
    << "/Applications/Google Chrome.app/Contents/MacOS/Google Chrome",
       "/usr/bin/chromium-browser", "/usr/bin/google-chrome", "chromium", "google-chrome" >>

\* cmd[0] of backend b: 0 is the first try, 1..5 index chrome_paths
Command(b) == IF b = 0 THEN "wkhtmltopdf" ELSE chrome_paths[b]

\* what a backend leaves at pdf_path
Written(writes, command) ==
    IF writes = "none" THEN pdf_file ELSE [holds |-> writes, by |-> command]

\* Path(pdf_path).exists()
PdfExists(file) == file.holds # "nothing"

\* the success test applied to the run of backend b
BackendAccepted(b, outcome, file) ==
    IF b = 0 THEN outcome = "ok" ELSE outcome = "ok" /\ PdfExists(file)

\* a fallback loop that skips every other candidate
NextBackendSkipping(b) == b + 2

\* the backend tried after b was not accepted
NextBackend(b) == b + 1

\* one subprocess.run of generate_pdf_from_html with what follows it.  The
\* run is not found (FileNotFoundError), raises another OSError (which
\* nothing catches), exits with another status than 0 having written nothing
\* or a file, or exits with status 0 having written nothing, an empty file
\* or a PDF.
PdfAttempt ==
    /\ pc = "pdf"
    /\ \E outcome \in {"notfound", "oserror", "nonzero", "ok"},
          writes \in {"none", "empty", "pdf"} :
          /\ outcome \in {"notfound", "oserror"} => writes = "none"
          /\ outcome = "nonzero" => writes # "empty"
          /\ attempts' = Append(attempts, Command(backend))
          /\ returncode' = outcome
          /\ pdf_file' = Written(writes, Command(backend))
          /\ IF outcome = "oserror"
             THEN /\ pc' = "done"
                  /\ exit_status' = 1
                  /\ UNCHANGED << backend, accepted, pdf_result >>
             ELSE IF BackendAccepted(backend, outcome, pdf_file')
             THEN /\ accepted' = Command(backend)
                  /\ pdf_result' = "True"
                  /\ pc' = "report"
                  /\ UNCHANGED << backend, exit_status >>
             ELSE IF NextBackend(backend) <= Len(chrome_paths)
             THEN /\ backend' = NextBackend(backend)
                  /\ pc' = "pdf"
                  /\ UNCHANGED << accepted, pdf_result, exit_status >>
             ELSE /\ pdf_result' = "False"
                  /\ pc' = "report"
                  /\ UNCHANGED << backend, accepted, exit_status >>
    /\ UNCHANGED << md_file, html_file, html_result >>
    /\ UNCHANGED << combineVars, stdout, inputVars, listed, sideVars >>

\* what generate_pdf returns
GeneratePdfResult == html_result = "True" /\ pdf_result = "True"

\* main: the banner and the exit status
Report ==
    /\ pc = "report"
    /\ exit_status' = IF GeneratePdfResult THEN 0 ELSE 1
    /\ stdout' = Append(stdout, <<"Banner", IF GeneratePdfResult
                                             THEN "PDF generation completed successfully!"
                                             ELSE "PDF generation failed!">>)
    /\ pc' = "done"
    /\ UNCHANGED << md_file, html_file, pdf_file, backend, attempts, returncode,
                    accepted, html_result, pdf_result >>
    /\ UNCHANGED << combineVars, inputVars, listed, sideVars >>

Next ==
    \/ Discover
    \/ ProcessOrdered
    \/ ProcessRemaining
    \/ Save
    \/ GenerateHtml
    \/ PdfAttempt
    \/ Report

Spec == InitRun /\ [][Next]_vars

(***************************************************************************)
(* main run again and again on the tree the runs before it left            *)
(***************************************************************************)

\* how many times main runs
MaxRuns == 2

\* the tree before the first run
RunsTree ==
    { "README.md", "CONTRIBUTING.md", "solutions/system_design/pastebin/README.md",
      "solutions/object_oriented_design/call_center/call_center.ipynb" }

\* a file outside the list it may hold
RunsExtras == { "CHANGELOG.md" }

InitRuns ==
    /\ pc = "start"
    /\ repo_path = "/srv/primer"
    /\ \E extras \in SUBSET RunsExtras, descending \in BOOLEAN :
          /\ walk = WalkOf(RunsTree \cup extras, descending)
          /\ disk = RunsTree \cup extras
    /\ pdf_file = [holds |-> "nothing", by |-> Nobody]
    /\ Idle

\* the files at the default output paths once a run has ended
Outputs ==
    (IF md_file # <<>> THEN {combined_md} ELSE {})
        \cup (IF html_file # "absent" THEN {combined_html} ELSE {})
        \cup (IF PdfExists(pdf_file) THEN {output_pdf} ELSE {})

\* the walk of the tree with the files of S added to the top directory,
\* listed before or after the files that were there
WalkWith(entries, S, first) ==
    LET added == Keep(<< combined_html, combined_md, output_pdf >>, S)
        new == [a \in 1..Len(added) |-> WalkEntry(added[a])]
        top == SelectSeq(entries, LAMBDA e : e.dir = "")
        below == SelectSeq(entries, LAMBDA e : e.dir # "")
    IN  IF first THEN new \o top \o below ELSE top \o new \o below

\* main is run once more: a new process and a new generator over the tree
\* as the run before left it
Rerun ==
    /\ pc = "done"
    /\ Len(earlier) + 1 < MaxRuns
    /\ earlier' = Append(earlier, [files |-> all_files, document |-> combined_markdown])
    /\ disk' = disk \cup Outputs
    /\ \E first \in BOOLEAN : walk' = WalkWith(walk, Outputs \ disk, first)
    /\ pdf_file' = [holds |-> pdf_file.holds, by |-> Nobody]
    /\ all_files' = <<>>
    /\ idx' = 0
    /\ processed_files' = {}
    /\ content' = ""
    /\ combined_markdown' = ""
    /\ stdout' = <<>>
    /\ backend' = 0
    /\ attempts' = <<>>
    /\ returncode' = Unset
    /\ accepted' = Nobody
    /\ html_result' = Unset
    /\ pdf_result' = Unset
    /\ exit_status' = Running
    /\ pc' = "start"
    /\ UNCHANGED << repo_path, md_file, html_file, listed, linkVars, cleanVars,
                    reportVars, anchorVars >>

NextRuns == Next \/ Rerun

SpecRuns == InitRuns /\ [][NextRuns]_vars

(***************************************************************************)
(* Discovery on its own: the Generator's and the Lister's walk of one      *)
(* tree.  The Generator walks the resolved --repo-path, the Lister ".".    *)
(***************************************************************************)

\* how many files the walked tree holds
MaxWalk == 2

\* where the repository may be checked out
RepoPaths == { "/srv/primer", "/srv/me.github.io" }

\* the Lister's repo_path
lister_repo_path == "."

\* the files the walked tree may hold
DiscoverPool ==
    { [dir |-> "", file |-> "README.md"],
      [dir |-> "", file |-> "README-ja.md"],
      [dir |-> "", file |-> "README-ko.md"],
      [dir |-> "", file |-> "README-zh-TW.md"],
      [dir |-> "", file |-> "TRANSLATIONS.md"],
      [dir |-> "", file |-> "combined-system-design-primer.md"],
      [dir |-> "", file |-> "LICENSE.txt"],
      [dir |-> ".github", file |-> "PULL_REQUEST_TEMPLATE.md"],
      [dir |-> "docs/old.github.pages", file |-> "index.md"],
      [dir |-> "docs", file |-> "guide-zh-Hans.md"],
      [dir |-> "solutions/system_design/pastebin", file |-> "README-zh-Hans.md"],
      [dir |-> "solutions/object_oriented_design/hash_table", file |-> "hash_map.ipynb"],
      [dir |-> "solutions/system_design/pastebin", file |-> "README.md"] }

\* a top-down walk lists the files of the top directory first
TopDown(entries) ==
    \A a, b \in 1..Len(entries) : a < b /\ entries[b].dir = "" => entries[a].dir = ""

Distinct(entries) ==
    \A a, b \in 1..Len(entries) : a # b => entries[a] # entries[b]

Walks ==
    { entries \in UNION { [1..n -> DiscoverPool] : n \in 0..MaxWalk } :
        Distinct(entries) /\ TopDown(entries) }

InitDiscover ==
    /\ pc = "walk"
    /\ repo_path \in RepoPaths
    /\ walk \in Walks
    /\ disk = {}
    /\ pdf_file = [holds |-> "nothing", by |-> Nobody]
    /\ Idle

\* the Generator's find_all_markdown_files
GeneratorFinds ==
    /\ pc = "walk"
    /\ all_files' = find_all_markdown_files(walk, repo_path)
    /\ pc' = "found"
    /\ UNCHANGED << idx, processed_files, content, combined_markdown, stdout, listed >>
    /\ UNCHANGED << inputVars, renderVars, sideVars >>

\* the Lister's find_all_markdown_files
ListerFinds ==
    /\ pc = "found"
    /\ listed' = lister_find_all_markdown_files(walk, lister_repo_path)
    /\ pc' = "listed"
    /\ UNCHANGED << combineVars, stdout, inputVars, renderVars, sideVars >>

\* the byte sizes a file of the tree may have
SizePool == { 0, 1023, 1025, 3000 }

\* full_path.exists() at the time of the report
ReportExists(sz, file_path) == file_path \in DOMAIN sz

\* the first loop of the report: one numbered line per listed file
ReportLine(sz, i, file_path) ==
    IF ReportExists(sz, file_path)
    THEN [n |-> i, path |-> file_path, missing |-> FALSE,
          size_kb |-> sz[file_path] \div 1024]
    ELSE [n |-> i, path |-> file_path, missing |-> TRUE, size_kb |-> 0]

\* a second loop that adds up the kilobytes the lines show
total_size_of_lines(files, sz) ==
    IF files = <<>> THEN 0
    ELSE LET kb(a) == IF ReportExists(sz, files[a]) THEN (sz[files[a]] \div 1024) * 1024
                      ELSE 0
             sum[a \in 0..Len(files)] == IF a = 0 THEN 0 ELSE sum[a - 1] + kb(a)
         IN  sum[Len(files)]

\* the second loop of the report: total_size
total_size(files, sz) ==
    IF files = <<>> THEN 0
    ELSE LET bytes(a) == IF ReportExists(sz, files[a]) THEN sz[files[a]] ELSE 0
             sum[a \in 0..Len(files)] == IF a = 0 THEN 0 ELSE sum[a - 1] + bytes(a)
         IN  sum[Len(files)]

\* the report the Lister prints for the files it found
ListerReports ==
    /\ pc = "listed"
    /\ \E present \in SUBSET Range(listed) :
          \E sz \in [present -> SizePool] :
             /\ sizes' = sz
             /\ report_lines' = [i \in 1..Len(listed) |-> ReportLine(sz, i, listed[i])]
             /\ printed_count' = Len(listed)
             /\ printed_kb' = total_size(listed, sz) \div 1024
    /\ pc' = "reported"
    /\ UNCHANGED << combineVars, stdout, inputVars, renderVars, listed, linkVars,
                    cleanVars, anchorVars, earlier >>

NextDiscover == GeneratorFinds \/ ListerFinds \/ ListerReports

SpecDiscover == InitDiscover /\ [][NextDiscover]_vars

(***************************************************************************)
(* process_internal_links on its own, applied to a sentence with one link  *)
(***************************************************************************)

LinkTexts == { "Pastebin", "See Cache" }

SolutionUrls ==
    { "solutions/" \o c \o "/" \o n \o "/" \o f :
        c \in { "system_design", "System_Design", "object_oriented_design", "misc" },
        n \in { "pastebin", "web_crawler", "Hash_Table" },
        f \in { "README.md", "crawler.py", "hash_map.ipynb", "README-zh-Hans.md" } }

OtherUrls ==
    { "README.md", "query_cache/README.md", "docs/Query_Cache/README.md",
      "CONTRIBUTING.md", "docs/faq page.md", "My_Notes.md", "README-ja.md",
      "README.md.md", "docs/raid.mdadm.md",
      "solutions/README.md", "solutions/system_design/README.md",
      "solutions/system_design/pastebin/img/README.md",
      "http://x.io/a.md", "https://x.io/README.md", "httpd/conf.md", "#top", "#faq.md",
      "images/a.png", "resources/b.pdf", "docs/c.txt" }

LinkUrls == SolutionUrls \cup OtherUrls

\* the content given to process_internal_links
Sentence(text, url) == "See [" \o text \o "](" \o url \o ") now.\n"

InitLinks ==
    /\ pc = "link"
    /\ repo_path = "/srv/primer"
    /\ walk = <<>>
    /\ disk = {}
    /\ pdf_file = [holds |-> "nothing", by |-> Nobody]
    /\ all_files = <<>>
    /\ idx = 0
    /\ processed_files = {}
    /\ content = ""
    /\ combined_markdown = ""
    /\ stdout = <<>>
    /\ md_file = <<>>
    /\ html_file = "absent"
    /\ backend = 0
    /\ attempts = <<>>
    /\ returncode = Unset
    /\ accepted = Nobody
    /\ html_result = Unset
    /\ pdf_result = Unset
    /\ exit_status = Running
    /\ listed = <<>>
    /\ link_text \in LinkTexts
    /\ link_url \in LinkUrls
    /\ link_out = ""
    /\ clean_in = ""
    /\ clean_once = ""
    /\ clean_twice = ""
    /\ sizes = <<>>
    /\ report_lines = <<>>
    /\ printed_count = 0
    /\ printed_kb = 0
    /\ section_files = <<>>
    /\ section_headers = <<>>
    /\ earlier = <<>>

\* content = self.process_internal_links(content, file_path)
RewriteLinks ==
    /\ pc = "link"
    /\ link_out' = process_internal_links(Sentence(link_text, link_url))
    /\ pc' = "rewritten"
    /\ UNCHANGED << link_text, link_url, listed, stdout, cleanVars, reportVars >>
    /\ UNCHANGED << anchorVars, earlier >>
    /\ UNCHANGED << combineVars, inputVars, renderVars >>

NextLinks == RewriteLinks

SpecLinks == InitLinks /\ [][NextLinks]_vars


(***************************************************************************)
(* clean_unicode_characters on its own, applied to a text and then to its  *)
(* own result                                                              *)
(***************************************************************************)

\* how many pieces a text given to clean_unicode_characters is made of
MaxPieces == 3

\* the fifth key of the table
QuoteKey == replacements[5][1]

\* the pieces of the texts: table keys, parts of keys, results of the table
\* and plain text
CleanPieces ==
    { "012", "036", "037", "~@", "0%4", "0", "12", "03", "4", "~", "-", "'", "\"",
      "plain text", SubSeq(QuoteKey, 1, 3), From(QuoteKey, 4), QuoteKey }

\* the texts of at most n pieces
RECURSIVE PiecesUpTo(_)
PiecesUpTo(n) ==
    IF n = 0 THEN { "" }
    ELSE PiecesUpTo(n - 1) \cup { t \o q : t \in PiecesUpTo(n - 1), q \in CleanPieces }

CleanTexts == PiecesUpTo(MaxPieces)

InitClean ==
    /\ pc = "clean"
    /\ repo_path = "/srv/primer"
    /\ walk = <<>>
    /\ disk = {}
    /\ pdf_file = [holds |-> "nothing", by |-> Nobody]
    /\ all_files = <<>>
    /\ idx = 0
    /\ processed_files = {}
    /\ content = ""
    /\ combined_markdown = ""
    /\ stdout = <<>>
    /\ md_file = <<>>
    /\ html_file = "absent"
    /\ backend = 0
    /\ attempts = <<>>
    /\ returncode = Unset
    /\ accepted = Nobody
    /\ html_result = Unset
    /\ pdf_result = Unset
    /\ exit_status = Running
    /\ listed = <<>>
    /\ link_text = ""
    /\ link_url = ""
    /\ link_out = ""
    /\ clean_in \in CleanTexts
    /\ clean_once = ""
    /\ clean_twice = ""
    /\ sizes = <<>>
    /\ report_lines = <<>>
    /\ printed_count = 0
    /\ printed_kb = 0
    /\ section_files = <<>>
    /\ section_headers = <<>>
    /\ earlier = <<>>

\* content = self.clean_unicode_characters(content)
CleanOnce ==
    /\ pc = "clean"
    /\ clean_once' = clean_unicode_characters(clean_in)
    /\ pc' = "cleaned"
    /\ UNCHANGED << clean_in, clean_twice, linkVars, reportVars, listed, stdout >>
    /\ UNCHANGED << anchorVars, earlier >>
    /\ UNCHANGED << combineVars, inputVars, renderVars >>

\* the same call on the text the first call returned
CleanAgain ==
    /\ pc = "cleaned"
    /\ clean_twice' = clean_unicode_characters(clean_once)
    /\ pc' = "recleaned"
    /\ UNCHANGED << clean_in, clean_once, linkVars, reportVars, listed, stdout >>
    /\ UNCHANGED << anchorVars, earlier >>
    /\ UNCHANGED << combineVars, inputVars, renderVars >>

NextClean == CleanOnce \/ CleanAgain

SpecClean == InitClean /\ [][NextClean]_vars


(***************************************************************************)
(* add_section_header on its own, applied in turn to two files of one      *)
(* document, next to process_internal_links applied to a link to the first *)
(***************************************************************************)

\* paths a tree can hold
AnchorPool ==
    { "README.md", "CONTRIBUTING.md", "solutions/README.md",
      "solutions/system_design/README.md",
      "solutions/system_design/pastebin/README.md",
      "solutions/system_design/pastebin/NOTES.md",
      "solutions/system_design/pastebin/README-ja.md",
      "solutions/system_design/pastebin/img/README.md",
      "solutions/system_design/query_cache/README.md",
      "solutions/system_design/query-cache/README.md",
      "solutions/System_Design/Pastebin/README.md",
      "solutions/object_oriented_design/hash_table/hash_map.ipynb",
      "solutions/object_oriented_design/hash_table/hash_map.py",
      "solutions/object_oriented_design/lru_cache/lru_cache.ipynb",
      "solutions/misc/hash_table/README.md" }

\* those of them find_all_markdown_files keeps
SectionFiles == { f \in AnchorPool : IsContentFile(Basename(f)) /\ ~is_non_english_file(f) }

InitAnchors ==
    /\ pc = "sections"
    /\ repo_path = "/srv/primer"
    /\ walk = <<>>
    /\ disk = {}
    /\ pdf_file = [holds |-> "nothing", by |-> Nobody]
    /\ all_files = <<>>
    /\ idx = 0
    /\ processed_files = {}
    /\ content = ""
    /\ combined_markdown = ""
    /\ stdout = <<>>
    /\ md_file = <<>>
    /\ html_file = "absent"
    /\ backend = 0
    /\ attempts = <<>>
    /\ returncode = Unset
    /\ accepted = Nobody
    /\ html_result = Unset
    /\ pdf_result = Unset
    /\ exit_status = Running
    /\ listed = <<>>
    /\ \E p \in SectionFiles : \E q \in SectionFiles \ {p} :
          /\ section_files = << p, q >>
          /\ link_url = p
    /\ link_text = "Pastebin"
    /\ link_out = ""
    /\ clean_in = ""
    /\ clean_once = ""
    /\ clean_twice = ""
    /\ sizes = <<>>
    /\ report_lines = <<>>
    /\ printed_count = 0
    /\ printed_kb = 0
    /\ section_headers = <<>>
    /\ earlier = <<>>

\* content = self.add_section_header(file_path, content), for the next file
AddHeader ==
    /\ pc = "sections"
    /\ Len(section_headers) < Len(section_files)
    /\ LET file_path == section_files[Len(section_headers) + 1]
       IN  section_headers' =
              Append(section_headers, add_section_header(file_path, FileContent(file_path)))
    /\ UNCHANGED << pc, section_files, linkVars, cleanVars, reportVars, earlier >>
    /\ UNCHANGED << combineVars, inputVars, renderVars, listed, stdout >>

\* content = self.process_internal_links(content, file_path), for a text
\* that links to the first file
LinkToSection ==
    /\ pc = "sections"
    /\ link_out = ""
    /\ link_out' = process_internal_links(Sentence(link_text, link_url))
    /\ UNCHANGED << pc, link_text, link_url, anchorVars, cleanVars, reportVars, earlier >>
    /\ UNCHANGED << combineVars, inputVars, renderVars, listed, stdout >>

NextAnchors == AddHeader \/ LinkToSection

SpecAnchors == InitAnchors /\ [][NextAnchors]_vars

(***************************************************************************)
(* Properties of a run of the Generator (Spec)                             *)
(***************************************************************************)

IsProcessingLine(line) ==
    line[1] \in { "Processing", "Processing additional English file" }

\* the files the run reported as processed, in the order of the reports
ProcessedOrder ==
    LET lines == SelectSeq(stdout, IsProcessingLine)
    IN  [a \in 1..Len(lines) |-> lines[a][2]]

\* the notebooks whose conversion the run reported as failed
FailedNotebooks ==
    { f \in Range(ProcessedOrder) :
        \E a \in 1..Len(stdout) : stdout[a] = <<"Warning", FullPath(repo_path, f)>> }

IsDiscoveredOnDisk(f) == f \in Range(all_files) /\ f \in disk

IsUnlistedOnDisk(f) == f \in disk /\ f \notin ListedFiles

\* listed files first, in listed order, then the other discovered files in
\* discovery order
ExpectedOrder ==
    SelectSeq(file_order, IsDiscoveredOnDisk) \o SelectSeq(all_files, IsUnlistedOnDisk)

ExpectedContribution(f) ==
    Transform(f, Load(f, IF f \in FailedNotebooks THEN "nonzero" ELSE "ok"))

\* the contributions of files[lo..hi], concatenated
RECURSIVE ExpectedRange(_, _, _)
ExpectedRange(files, lo, hi) ==
    IF lo > hi THEN ""
    ELSE IF lo = hi THEN ExpectedContribution(files[lo])
    ELSE LET mid == (lo + hi) \div 2
         IN  ExpectedRange(files, lo, mid) \o ExpectedRange(files, mid + 1, hi)

ExpectedDocument(files) == ExpectedRange(files, 1, Len(files))

NoRepeats(seq) == \A a, b \in 1..Len(seq) : a # b => seq[a] # seq[b]

\* C1: when the combined document is saved, it is the concatenation of the
\* contributions of the listed files that were discovered and exist, in
\* listed order, followed by those of the remaining discovered files in
\* discovery order; every such file contributes exactly once and no other
\* file contributes.
C1_ListedThenDiscovered ==
    pc = "html" =>
        /\ ProcessedOrder = ExpectedOrder
        /\ NoRepeats(ProcessedOrder)
        /\ Range(ProcessedOrder) \subseteq Range(all_files)
        /\ combined_markdown = ExpectedDocument(ExpectedOrder)
        /\ md_file = <<combined_markdown>>

\* all sixteen listed files, then two discovered files outside the list
C1_Witness ==
    /\ pc = "html"
    /\ Len(ProcessedOrder) = Len(file_order) + 2
    /\ SubSeq(ProcessedOrder, 1, Len(file_order)) = file_order

IsListed(f) == f \in ListedFiles

\* C8: a listed file that does not exist is skipped without a report, a
\* warning, a header or a placeholder, and the listed files that do exist are
\* processed in their listed order.
C8_MissingListedSkipped ==
    pc = "html" =>
        /\ \A a \in 1..Len(file_order) :
              file_order[a] \notin disk =>
                /\ file_order[a] \notin Range(ProcessedOrder)
                /\ \A b \in 1..Len(stdout) : stdout[b][2] # file_order[a]
                /\ \A b \in 1..Len(stdout) :
                      stdout[b][2] # FullPath(repo_path, file_order[a])
                /\ ~Contains(combined_markdown, section_header(file_order[a]))
                /\ ~Contains(combined_markdown,
                             NotebookPlaceholder(FullPath(repo_path, file_order[a])))
        /\ SelectSeq(ProcessedOrder, IsListed) = Keep(file_order, disk)

\* a listed file is gone, the files listed after it were still processed
C8_Witness ==
    /\ pc = "html"
    /\ \E a \in 1..Len(file_order) - 1 :
          /\ file_order[a] \notin disk
          /\ file_order[a + 1] \in Range(ProcessedOrder)

\* the last thing the run printed is the warning of a failed conversion
ConversionJustFailed ==
    /\ Len(stdout) >= 2
    /\ stdout[Len(stdout)][1] = "Warning"

\* the file the last report is about
JustProcessed == stdout[Len(stdout) - 1][2]

FailureText(path) == "# " \o path \o "\n\n*Notebook conversion failed*\n\n"

\* C7 as written: the contribution of a notebook whose conversion failed is
\* exactly the placeholder, a heading naming the file's path and the italic
\* marker.
C7_ExactlyPlaceholder ==
    ConversionJustFailed =>
        content \in { FailureText(JustProcessed),
                      FailureText(FullPath(repo_path, JustProcessed)) }

\* C7: the contribution of a notebook whose conversion failed is its section
\* header followed by the placeholder, whose heading names the notebook's
\* full path; the failure stops nothing: the other files are processed, and
\* the run goes on to the HTML and PDF stages and can exit with status 0.
C7_HeaderThenPlaceholder ==
    /\ ConversionJustFailed =>
          /\ content = section_header(JustProcessed)
                          \o FailureText(FullPath(repo_path, JustProcessed))
          /\ EndsWith(combined_markdown, content)
    /\ pc = "html" /\ ConvFailures > 0 => ProcessedOrder = ExpectedOrder
    /\ ConvFailures > 0 /\ exit_status = 1 =>
          html_result = "False" \/ pdf_result = "False" \/ returncode = "oserror"

\* a conversion failed and the run completed
C7_Witness == ConvFailures > 0 /\ exit_status = 0

Last(seq) == seq[Len(seq)]

GeneratingHtmlLines ==
    { a \in 1..Len(stdout) : stdout[a][1] = "Generating HTML..." }

\* C4: the PDF stage is attempted only after the HTML stage succeeded; when
\* the HTML stage fails, no backend is run, the failure banner is printed and
\* the exit status is 1; no stage is retried.
C4_PdfOnlyAfterHtml ==
    /\ attempts # <<>> => html_result = "True"
    /\ html_result = "False" =>
          /\ attempts = <<>>
          /\ pdf_result = Unset
          /\ pc \in { "report", "done" }
    /\ pc = "done" /\ html_result = "False" =>
          /\ exit_status = 1
          /\ Last(stdout) = <<"Banner", "PDF generation failed!">>
    /\ pc = "done" /\ pdf_result = "False" => exit_status = 1
    /\ exit_status = 0 => html_result = "True" /\ pdf_result = "True"
    /\ Cardinality(GeneratingHtmlLines) <= 1
    /\ NoRepeats(attempts)

\* the HTML stage failed and the run ended
C4_Witness == pc = "done" /\ html_result = "False" /\ exit_status = 1

\* the backends in the order they are tried
BackendOrder == <<"wkhtmltopdf">> \o chrome_paths

\* the last run was not found, exited non-zero, or was a Chrome-family
\* candidate that exited 0 and left no file
LastRunFailed ==
    \/ returncode \in { "notfound", "nonzero" }
    \/ returncode = "ok" /\ Len(attempts) > 1 /\ ~PdfExists(pdf_file)

\* C5: the backends are tried in one fixed order, the primary renderer and
\* then the five Chrome-family candidates as listed; a later one is run only
\* when every earlier one was absent or failed; the first success is
\* accepted and nothing is run after it; when all are absent or fail the PDF
\* stage reports failure.
C5_FixedBackendOrder ==
    /\ Len(attempts) <= Len(BackendOrder)
    /\ attempts = SubSeq(BackendOrder, 1, Len(attempts))
    /\ pc = "pdf" /\ attempts # <<>> => LastRunFailed
    /\ accepted # Nobody =>
          /\ accepted = Last(attempts)
          /\ returncode = "ok"
          /\ pdf_result = "True"
          /\ pc \in { "report", "done" }
    /\ attempts # <<>> /\ returncode = "ok" /\ ~LastRunFailed =>
          accepted = Last(attempts)
    /\ Len(attempts) = Len(BackendOrder) /\ LastRunFailed =>
          pdf_result = "False" /\ accepted = Nobody

\* the primary renderer and the first Chrome candidate failed, the second
\* Chrome candidate was accepted
C5_Witness == Len(attempts) = 3 /\ accepted = chrome_paths[2]

\* C6: an exit status of 0 means that the PDF at the output path was produced
\* by the backend that was accepted.
C6_SuccessMeansPdfProduced ==
    exit_status = 0 => pdf_file.holds = "pdf" /\ pdf_file.by = accepted


(***************************************************************************)
(* Properties of discovery (SpecDiscover)                                  *)
(***************************************************************************)

\* the repository-relative path of a walked file
RelOf(e) == IF e.dir = "" THEN e.file ELSE e.dir \o "/" \o e.file

HasNonEnglishPattern(rel) ==
    \/ Contains(rel, "README-ja.md")
    \/ Contains(rel, "README-zh-Hans.md")
    \/ Contains(rel, "README-zh-TW.md")
    \/ Contains(rel, "-zh-Hans.md")
    \/ Contains(rel, "-ja.md")

HasExcludedMarker(rel) ==
    \/ Contains(rel, "combined-system-design-primer.md")
    \/ Contains(rel, "combined-system-design-primer.html")
    \/ Contains(rel, "TRANSLATIONS.md")

HasContentExtension(e) == EndsWith(e.file, ".md") \/ EndsWith(e.file, ".ipynb")

\* the walked files that are content files
ContentEntries == { a \in 1..Len(walk) : HasContentExtension(walk[a]) }

\* what discovery computes: a content file is included exactly when its path
\* contains none of the five patterns and none of the three markers, and the
\* path of its directory, repository path included, does not contain
\* ".github"; nothing but content files is included.
GeneratorFilterAsCoded ==
    pc \in { "found", "listed" } =>
        /\ \A a \in ContentEntries :
              LET rel == RelOf(walk[a])
              IN  rel \in Range(all_files) <=>
                    /\ ~HasNonEnglishPattern(rel)
                    /\ ~HasExcludedMarker(rel)
                    /\ ~Contains(PathJoin(repo_path, walk[a].dir), ".github")
        /\ Range(all_files) \subseteq { RelOf(walk[a]) : a \in ContentEntries }

\* C2: a content file whose path contains one of the five non-English
\* patterns is excluded; every other content file that is not under a
\* directory named .github is included (the three excluded markers of the
\* filter being granted as further exclusions).
C2_OnlyGithubDirectorySkipped ==
    pc \in { "found", "listed" } =>
        \A a \in ContentEntries :
            LET rel == RelOf(walk[a])
            IN  /\ HasNonEnglishPattern(rel) => rel \notin Range(all_files)
                /\ (/\ ~HasNonEnglishPattern(rel)
                    /\ ~HasExcludedMarker(rel)
                    /\ ".github" \notin Range(Split(walk[a].dir, "/")))
                      => rel \in Range(all_files)

\* C3: the Lister lists exactly the Markdown files the Generator would
\* include.
C3_ListerAgreesWithGenerator ==
    pc = "listed" =>
        Range(listed) = { f \in Range(all_files) : EndsWith(f, ".md") }

(***************************************************************************)
(* Properties of repeated runs (SpecRuns)                                  *)
(***************************************************************************)

\* files holds neither output of an earlier run
NoOutputs(files) == combined_md \notin Range(files) /\ combined_html \notin Range(files)

\* the second loop of this run has ended
Combined == pc \in {"html", "pdf", "report", "done"}

\* C15: over a sequence of Generator runs on an otherwise unchanged tree,
\* with the default output names, the Candidate File Set of every run holds
\* neither combined-system-design-primer.md nor
\* combined-system-design-primer.html, and every later run finds the files
\* and builds the Combined Markdown Document of the first run.
C15_OutputsNeverReingested ==
    /\ \A a \in 1..Len(earlier) :
          /\ NoOutputs(earlier[a].files)
          /\ earlier[a] = earlier[1]
    /\ pc # "start" => NoOutputs(all_files)
    /\ (pc # "start" /\ earlier # <<>>) => all_files = earlier[1].files
    /\ (Combined /\ earlier # <<>>) => combined_markdown = earlier[1].document

\* a second run has ended on a tree that holds the markdown and the HTML
\* the first one wrote, both seen by its walk
C15_Witness ==
    /\ pc = "done"
    /\ earlier # <<>>
    /\ {combined_md, combined_html} \subseteq disk
    /\ \E a, b \in 1..Len(walk) :
          /\ walk[a] = WalkEntry(combined_md)
          /\ walk[b] = WalkEntry(combined_html)
    /\ combined_markdown # ""

(***************************************************************************)
(* Properties of the injected headers (SpecAnchors)                        *)
(***************************************************************************)

\* the text between the first occurrence of open and the next close, or
\* "" when s holds no open
Between(s, open, close) ==
    IF Contains(s, open)
    THEN LET rest == From(s, Find(s, open) + Len(open))
         IN  SubSeq(rest, 1, Find(rest, close))
    ELSE ""

\* the anchor id of an injected header, "" when it has none
HeaderAnchor(section) == Between(section, "{#", "}")

\* the in-document anchor a rewritten link points to, "" when it points
\* elsewhere
LinkAnchor(out) == Between(out, "](#", ")")

\* the anchor of the header of a file under solutions/ with at least four
\* segments is the anchor a link to that file gets when it is rewritten to
\* an in-document anchor
AnchorMatchesLink ==
    ( /\ Len(section_headers) >= 1
      /\ link_out # ""
      /\ StartsWith(section_files[1], "solutions/")
      /\ Len(Split(section_files[1], "/")) >= 4
      /\ LinkAnchor(link_out) # "" )
    => HeaderAnchor(section_headers[1]) = LinkAnchor(link_out)

AnchorMatchesLinkWitness ==
    /\ Len(section_headers) >= 1
    /\ section_files[1] = "solutions/object_oriented_design/hash_table/hash_map.ipynb"
    /\ LinkAnchor(link_out) = "object-oriented-design-hash-table"

\* no two files of one document get the same anchor id
DistinctAnchors ==
    \A a, b \in 1..Len(section_headers) :
        ( /\ a # b
          /\ HeaderAnchor(section_headers[a]) # "" )
        => HeaderAnchor(section_headers[a]) # HeaderAnchor(section_headers[b])

\* C14: the anchor id add_section_header injects for a file under
\* solutions/ with at least four segments equals the anchor that
\* process_internal_links gives a link to that file whenever it rewrites the
\* link to an in-document anchor, and no two distinct processed files get
\* the same injected anchor id.
C14_AnchorConsistency == AnchorMatchesLink /\ DistinctAnchors

\* the sum of the byte sizes of the files of S
RECURSIVE SumBytes(_)
SumBytes(S) ==
    IF S = {} THEN 0
    ELSE LET f == CHOOSE g \in S : TRUE IN sizes[f] + SumBytes(S \ {f})

\* the listed files that exist when the report is printed
ListedPresent == { f \in Range(listed) : f \in DOMAIN sizes }

\* C12: in the Lister's report the printed file count is the number of
\* numbered lines, one per listed file; the printed total in kilobytes is the
\* floor of the sum of the byte sizes of the listed files that exist, divided
\* by 1024; a listed file that is missing is shown as missing and adds
\* nothing to the total.
C12_ReportTotals ==
    pc = "reported" =>
        /\ printed_count = Len(report_lines)
        /\ Len(report_lines) = Len(listed)
        /\ \A i \in 1..Len(report_lines) :
              /\ report_lines[i].n = i
              /\ report_lines[i].path = listed[i]
              /\ report_lines[i].missing <=> listed[i] \notin DOMAIN sizes
        /\ printed_kb * 1024 <= SumBytes(ListedPresent)
        /\ SumBytes(ListedPresent) < (printed_kb + 1) * 1024

\* two files are listed, one is missing, the other holds more than a
\* kilobyte
C12_Witness ==
    /\ pc = "reported"
    /\ Len(report_lines) = 2
    /\ \E i \in 1..2 : report_lines[i].missing
    /\ printed_kb >= 1

(***************************************************************************)
(* Properties of link rewriting (SpecLinks)                                *)
(***************************************************************************)

Hyphenated(s) == Replace(s, "_", "-")

Segments(url) == Split(url, "/")

\* the sentence with its link replaced by  [text](target)
Rewritten(target) == "See [" \o link_text \o "](" \o target \o ") now.\n"

GithubTarget(url) ==
    "https://github.com/donnemartin/system-design-primer/blob/master/" \o url

IsSolutionUrl(url) == StartsWith(url, "solutions/") /\ Len(Segments(url)) >= 4

\* C9 as written: the category and the problem are the second and third
\* segments, underscores turned to hyphens and lower-cased; a system-design
\* README.md and an object-oriented-design notebook become the anchor
\* #category-problem, every other solution link the GitHub URL.
C9_LowerCasedCategory ==
    pc = "rewritten" /\ IsSolutionUrl(link_url) =>
        LET category == Lower(Hyphenated(Segments(link_url)[2]))
            problem == Lower(Hyphenated(Segments(link_url)[3]))
            internal ==
                \/ category = "system-design" /\ EndsWith(link_url, "README.md")
                \/ category = "object-oriented-design" /\ EndsWith(link_url, ".ipynb")
        IN  link_out = Rewritten(IF internal THEN "#" \o category \o "-" \o problem
                                 ELSE GithubTarget(link_url))

\* C9: the category is the second segment with underscores turned to
\* hyphens, compared as written (no lower-casing); a system-design README.md
\* and an object-oriented-design notebook become the anchor
\* #category-problem, lower-cased; every other solution link the GitHub URL.
C9_CategoryAsWritten ==
    pc = "rewritten" /\ IsSolutionUrl(link_url) =>
        LET category == Hyphenated(Segments(link_url)[2])
            problem == Hyphenated(Segments(link_url)[3])
            internal ==
                \/ category = "system-design" /\ EndsWith(link_url, "README.md")
                \/ category = "object-oriented-design" /\ EndsWith(link_url, ".ipynb")
        IN  link_out = Rewritten(IF internal
                                 THEN "#" \o Lower(category \o "-" \o problem)
                                 ELSE GithubTarget(link_url))

\* a system-design README link became an anchor
C9_Witness ==
    /\ pc = "rewritten"
    /\ link_url = "solutions/system_design/web_crawler/README.md"
    /\ link_out = Rewritten("#system-design-web-crawler")

IsOtherMdUrl(url) ==
    /\ EndsWith(url, ".md")
    /\ ~StartsWith(url, "http://")
    /\ ~StartsWith(url, "https://")
    /\ ~StartsWith(url, "solutions/")

\* the slug of a file name: lower-cased, underscores and spaces to hyphens
Slug(name) == Replace(Replace(Lower(name), "_", "-"), " ", "-")

\* the name of the directory a path lies in
ParentName(url) == Basename(Dirname(url))

\* C10 as written: README.md becomes #main-readme, a nested README.md the
\* hyphenated name of its parent directory, any other .md file the slug of
\* its file name without the extension and without "README".
C10_ExtensionStripped ==
    pc = "rewritten" /\ IsOtherMdUrl(link_url) =>
        LET name == Basename(link_url)
            stem == SubSeq(name, 1, Len(name) - 3)
        IN  link_out = Rewritten(
                IF link_url = "README.md" THEN "#main-readme"
                ELSE IF name = "README.md" THEN "#" \o Hyphenated(ParentName(link_url))
                ELSE "#" \o Slug(Replace(stem, "README", "")))

\* C10: every ".md" and every "README" is removed from the file name; when
\* nothing is left the link becomes #main-readme if the path has no parent
\* directory and the hyphenated name of the parent directory otherwise; when
\* something is left the link becomes its slug.
C10_EveryOccurrenceRemoved ==
    pc = "rewritten" /\ IsOtherMdUrl(link_url) =>
        LET left == Replace(Replace(Basename(link_url), ".md", ""), "README", "")
        IN  link_out = Rewritten(
                IF left # "" THEN "#" \o Slug(left)
                ELSE IF Dirname(link_url) = "" THEN "#main-readme"
                ELSE "#" \o Hyphenated(ParentName(link_url)))

\* a nested README link became the anchor of its parent directory
C10_Witness ==
    /\ pc = "rewritten"
    /\ link_url = "docs/Query_Cache/README.md"
    /\ link_out = Rewritten("#Query-Cache")


\* C13: a link whose URL starts with "#" is left unchanged, whatever the
\* rest of the URL is.
C13_HashLinksUnchanged ==
    pc = "rewritten" /\ StartsWith(link_url, "#") =>
        link_out = Sentence(link_text, link_url)

(***************************************************************************)
(* Properties of the Unicode cleanup (SpecClean)                           *)
(***************************************************************************)

\* C11: clean_unicode_characters is idempotent: applied to its own result it
\* returns that result.
C11_CleanupIdempotent ==
    pc = "recleaned" => clean_twice = clean_once

=============================================================================
